---------------------------- MODULE Spec2Model ----------------------------
(***************************************************************************)
(* Model of the Terraform cost analyzer (terraform_cost_analyzer.py):      *)
(* plan classification (_extract_resources), the per-resource estimation   *)
(* protocol (_get_resource_cost_estimate, _call_bedrock,                   *)
(* _parse_bedrock_response), the aggregation loop                          *)
(* (analyze_costs_with_bedrock) and the report (generate_cost_report).     *)
(*                                                                         *)
(* A backend reply is a sequence of tokens.  "{" and "}" are the brace     *)
(* characters, "x" is a prose character, "cb" is the key                   *)
(* "cost_breakdown": (which must be followed by an object), and every      *)
(* other token is one whole member "key": value of a JSON object.          *)
(***************************************************************************)
EXTENDS Integers, Sequences, FiniteSets, TLC

VARIABLES
    plan_data,      \* the parsed plan document handed to _extract_resources
    resources,      \* the classified set: create / update / delete lists
    pc,             \* position of the single control thread
    bucket,         \* index into BucketOrder of the action being visited
    idx,            \* index of the resource being visited in that bucket
    response,       \* text returned by _call_bedrock for the current resource
    resource_cost,  \* result of _get_resource_cost_estimate (Optional)
    cost_analysis,  \* the aggregate built by analyze_costs_with_bedrock
    script,         \* replies the backend is scripted to give (ParseSpec only)
    prompt_log,     \* history: resources the prompt builder was invoked on
    call_log,       \* history: resources the backend was invoked for
    parse_raised,   \* whether _parse_bedrock_response raised to its caller
    processed,      \* history: one record per resource the loop finished
    entry_src,      \* history: which resource wrote each breakdown entry
    key_order,      \* insertion order of the keys of monthly_cost_breakdown
    aws_region,     \* self.aws_region
    output_file,    \* generate_cost_report's output_file argument
    report,         \* what generate_cost_report returned (Optional text)
    saved,          \* what the output target holds (Optional text)
    error_log       \* messages of logger.error in generate_cost_report and main

report_vars == <<aws_region, output_file, report, saved, error_log>>

vars == <<plan_data, resources, pc, bucket, idx, response, resource_cost,
          cost_analysis, script, parse_raised, prompt_log, call_log, processed,
          entry_src, key_order, aws_region, output_file, report, saved, error_log>>

(***************************************************************************)
(* Bounds of the model.                                                    *)
(***************************************************************************)
MaxChanges == 2
MaxClassify == 2
MaxActions == 2
MaxText == 6
MaxProse == 1
MaxShaped == 2

(***************************************************************************)
(* Values of a decoded reply.  A value carries its JSON kind; `num` is the *)
(* number of a "num", `items` the elements of a "list", the characters of  *)
(* a "str", the member tokens of an "obj".                                 *)
(***************************************************************************)
Num(n) == [kind |-> "num", num |-> n, items |-> <<>>]
Str(cs) == [kind |-> "str", num |-> 0, items |-> cs]
List(xs) == [kind |-> "list", num |-> 0, items |-> xs]
Obj(ms) == [kind |-> "obj", num |-> 0, items |-> ms]

EmptyDict == [k \in {} |-> Num(0)]

DictSet(d, key, val) == (key :> val) @@ d

\* Optional[Dict]: None, or a decoded cost record.
None == [some |-> FALSE, data |-> EmptyDict]
Some(d) == [some |-> TRUE, data |-> d]

\* The member each scalar token stands for.
TokenKey(tok) ==
    CASE tok \in {"mc1", "mc2", "mcs"} -> "monthly_cost"
      [] tok \in {"hcA", "hcB", "hcn"} -> "hidden_costs"
      [] tok \in {"dtA", "dtB", "dtn"} -> "data_transfer_costs"
      [] tok \in {"recA", "recB"} -> "recommendations"

TokenValue(tok) ==
    CASE tok = "mc1" -> Num(1)
      [] tok = "mc2" -> Num(2)
      [] tok = "mcs" -> Str(<<"9">>)
      [] tok = "hcA" -> List(<<"h1", "h2">>)
      [] tok = "hcB" -> List(<<"h3">>)
      [] tok = "hcn" -> Num(5)
      [] tok = "dtA" -> List(<<"d1", "d2">>)
      [] tok = "dtB" -> List(<<"d3">>)
      [] tok = "dtn" -> Num(5)
      [] tok = "recA" -> List(<<"r1", "r2">>)
      [] tok = "recB" -> List(<<"r1">>)

ScalarTokens ==
    {"mc1", "mc2", "mcs", "hcA", "hcB", "hcn", "dtA", "dtB", "dtn", "recA", "recB"}

(***************************************************************************)
(* json.loads on a token sequence.  ParseMembers reads the members of an   *)
(* object whose "{" has been consumed, up to and including its "}".        *)
(***************************************************************************)
ParseFail == [ok |-> FALSE, next |-> 0, data |-> EmptyDict]

RECURSIVE ParseMembers(_, _, _)
ParseMembers(t, i, acc) ==
    IF i > Len(t) THEN ParseFail
    ELSE IF t[i] = "}" THEN [ok |-> TRUE, next |-> i + 1, data |-> acc]
    ELSE IF t[i] \in ScalarTokens
        THEN ParseMembers(t, i + 1, DictSet(acc, TokenKey(t[i]), TokenValue(t[i])))
    ELSE IF t[i] = "cb" /\ i + 1 <= Len(t) /\ t[i + 1] = "{"
        THEN LET inner == ParseMembers(t, i + 2, EmptyDict)
             IN  IF inner.ok
                 THEN ParseMembers(t, inner.next,
                          DictSet(acc, "cost_breakdown",
                                  Obj(SubSeq(t, i + 2, inner.next - 2))))
                 ELSE ParseFail
    ELSE ParseFail

\* json.loads(json_str): the whole string must be one value; a JSONDecodeError
\* is ok = FALSE.
JsonLoads(s) ==
    IF Len(s) = 0 \/ s[1] # "{" THEN ParseFail
    ELSE CHOOSE decoded \in
             {IF r.ok /\ r.next = Len(s) + 1 THEN r ELSE ParseFail :
                 r \in {ParseMembers(s, 2, EmptyDict)}} : TRUE

\* str.find / str.rfind with Python's 0-based result, -1 when absent.
Find(t, c) ==
    IF \E p \in 1..Len(t) : t[p] = c
    THEN (CHOOSE p \in 1..Len(t) : t[p] = c /\ \A q \in 1..(p - 1) : t[q] # c) - 1
    ELSE -1

RFind(t, c) ==
    IF \E p \in 1..Len(t) : t[p] = c
    THEN (CHOOSE p \in 1..Len(t) : t[p] = c /\ \A q \in (p + 1)..Len(t) : t[q] # c) - 1
    ELSE -1

\* response[start:end] for 0 <= start, 0 <= end (Python slice, 0-based, end exclusive).
Slice(t, start, end) == SubSeq(t, start + 1, end)

required_fields == <<"monthly_cost", "cost_breakdown">>

\* Mutant of TryParse: json.loads on the whole reply, no brace scan.
TryParseStrict(text) ==
    LET cost_data == JsonLoads(text)
    IN  IF ~cost_data.ok THEN [exc |-> "JSONDecodeError", value |-> None]
        ELSE IF \E f \in 1..Len(required_fields) :
                    required_fields[f] \notin DOMAIN cost_data.data
             THEN [exc |-> "none", value |-> None]
             ELSE [exc |-> "none", value |-> Some(cost_data.data)]

\* The try block of _parse_bedrock_response: the value it returns, or the
\* exception that leaves it.
TryParse(text) ==
    LET start_idx == Find(text, "{")
        end_idx == RFind(text, "}") + 1
    IN  IF start_idx = -1 \/ end_idx = 0 THEN [exc |-> "none", value |-> None]
        ELSE CHOOSE outcome \in
                 {IF ~cost_data.ok THEN [exc |-> "JSONDecodeError", value |-> None]
                  ELSE IF \E f \in 1..Len(required_fields) :
                              required_fields[f] \notin DOMAIN cost_data.data
                       THEN [exc |-> "none", value |-> None]
                       ELSE [exc |-> "none", value |-> Some(cost_data.data)] :
                     cost_data \in {JsonLoads(Slice(text, start_idx, end_idx))}} : TRUE

\* Mutant of HandleParseException: the exception leaves the function.
PropagateParseException(exc) == [raised |-> TRUE, value |-> None]

\* The except clauses of _parse_bedrock_response: log and return None.
HandleParseException(exc) == [raised |-> FALSE, value |-> None]

\* _parse_bedrock_response
ParseBedrockResponse(text) ==
    LET o == TryParse(text)
    IN  IF o.exc = "none" THEN [raised |-> FALSE, value |-> o.value]
        ELSE HandleParseException(o.exc)

(***************************************************************************)
(* Plan classification: _extract_resources and _format_resource.           *)
(***************************************************************************)
BucketOrder == <<"create", "update", "delete">>

Contains(seq, x) == \E i \in 1..Len(seq) : seq[i] = x

\* action = change.get('change', {}).get('actions', [])
ActionList(change) == IF "change" \in change.present THEN change.actions ELSE <<>>

\* Mutant of BucketOf: update is tested before create.
BucketOfUpdateFirst(change) ==
    IF Contains(ActionList(change), "update") THEN "update"
    ELSE IF Contains(ActionList(change), "create") THEN "create"
    ELSE IF Contains(ActionList(change), "delete") THEN "delete"
    ELSE "none"

\* The if / elif / elif chain on `action`; "none" when no branch is taken.
BucketOf(change) ==
    IF Contains(ActionList(change), "create") THEN "create"
    ELSE IF Contains(ActionList(change), "update") THEN "update"
    ELSE IF Contains(ActionList(change), "delete") THEN "delete"
    ELSE "none"

\* change.get(key, ''): the value under the key, '' when the key is absent.
FormatResource(change) ==
    [type |-> IF "type" \in change.present THEN change.type ELSE "",
     address |-> IF "address" \in change.present THEN change.address ELSE ""]

EmptyResources == [create |-> <<>>, update |-> <<>>, delete |-> <<>>]

\* `change.get(...)` on a record that is not a mapping, or `.get('actions', [])`
\* on a 'change' value that is not one, is an AttributeError.
GetRaises(change) ==
    \/ ~change.mapping
    \/ ("change" \in change.present /\ ~change.change_mapping)

\* The for loop over plan_data['resource_changes']: the buckets it returns,
\* or the exception that ends it.
RECURSIVE ExtractLoop(_, _, _)
ExtractLoop(changes, i, res) ==
    IF i > Len(changes) THEN [raised |-> FALSE, resources |-> res]
    ELSE IF GetRaises(changes[i]) THEN [raised |-> TRUE, resources |-> EmptyResources]
    ELSE LET b == BucketOf(changes[i])
         IN  ExtractLoop(changes, i + 1,
                 IF b = "none" THEN res
                 ELSE [res EXCEPT ![b] = Append(@, FormatResource(changes[i]))])

\* `'resource_changes' not in plan_data` is a TypeError on a document that is
\* a number or null; on a list it is an element test and on a string a
\* substring test.
MembershipRaises(plan) == plan.kind \in {"num", "null"}

\* plan_data['resource_changes'] on a list or a string is a TypeError.
SubscriptRaises(plan) == plan.kind # "dict"

\* Mutant of ExtractResources: plan_data['resource_changes'] is read without
\* the membership test, a KeyError when the key is absent.
ExtractResourcesUnchecked(plan) ==
    IF ~plan.has_resource_changes
    THEN [raised |-> TRUE, resources |-> EmptyResources]
    ELSE ExtractLoop(plan.resource_changes, 1, EmptyResources)

\* _extract_resources: `raised` tells whether it ends in an exception.
ExtractResources(plan) ==
    IF MembershipRaises(plan)
    THEN [raised |-> TRUE, resources |-> EmptyResources]
    ELSE IF ~plan.has_resource_changes
    THEN [raised |-> FALSE, resources |-> EmptyResources]
    ELSE IF SubscriptRaises(plan)
    THEN [raised |-> TRUE, resources |-> EmptyResources]
    ELSE ExtractLoop(plan.resource_changes, 1, EmptyResources)

(***************************************************************************)
(* The aggregate and the merge of one estimate into it.                    *)
(***************************************************************************)
InitialCostAnalysis ==
    [total_estimated_cost |-> 0,
     monthly_cost_breakdown |-> [a \in {} |-> EmptyDict],
     hidden_costs |-> <<>>,
     data_transfer_costs |-> <<>>,
     recommendations |-> <<>>]

\* Python truthiness of a decoded value.
Truthy(v) == IF v.kind = "num" THEN v.num # 0 ELSE v.items # <<>>

\* dict.get(key, 0)
Get(d, key) == IF key \in DOMAIN d THEN d[key] ELSE Num(0)

\* Mutant of IsTruthyCost: the estimate is merged without the test.
AlwaysTruthyCost(rc) == TRUE

\* `if resource_cost:`: None and the empty dict are falsy.
IsTruthyCost(rc) == rc.some /\ DOMAIN rc.data # {}

\* Mutant of IsSkippedAction: no bucket is skipped.
NeverSkippedAction(action) == FALSE

\* `if action == 'delete': continue`
IsSkippedAction(action) == action = "delete"

\* Lines 140-149 for a truthy resource_cost: the statements run in order and
\* the first one that raises (a TypeError of += or of list.extend) ends them,
\* keeping what the earlier statements did.
MergeEstimate(ca, address, d) ==
    LET ca1 == [ca EXCEPT !.monthly_cost_breakdown = DictSet(@, address, d)]
        mc == Get(d, "monthly_cost")
        ca2 == [ca1 EXCEPT !.total_estimated_cost = @ + mc.num]
        hc == Get(d, "hidden_costs")
        ca3 == IF Truthy(hc)
               THEN [ca2 EXCEPT !.hidden_costs = @ \o hc.items]
               ELSE ca2
        dt == Get(d, "data_transfer_costs")
        ca4 == IF Truthy(dt)
               THEN [ca3 EXCEPT !.data_transfer_costs = @ \o dt.items]
               ELSE ca3
    IN  IF mc.kind # "num" THEN [raised |-> TRUE, ca |-> ca1]
        ELSE IF Truthy(hc) /\ hc.kind = "num" THEN [raised |-> TRUE, ca |-> ca2]
        ELSE IF Truthy(dt) /\ dt.kind = "num" THEN [raised |-> TRUE, ca |-> ca3]
        ELSE [raised |-> FALSE, ca |-> ca4]

\* Mutant of NextIndex: a failed resource is tried again.
NextIndexRetry(i, failed) == IF failed THEN i ELSE i + 1

\* The for loop moves to the next resource whether or not this one failed.
NextIndex(i, failed) == i + 1


(***************************************************************************)
(* Inputs.                                                                 *)
(***************************************************************************)
SeqsUpTo(S, n) == UNION {[1..k -> S] : k \in 0..n}

Addresses == {"a", "b"}

\* Top-level keys of a plan document other than resource_changes.
OtherKeys == {"format_version", "planned_values"}

\* A change record of the expected shape: a mapping with type, address and a
\* 'change' mapping that holds the action list.
ChangeKeys == {"type", "address", "change"}

Change(type, address, actions) ==
    [mapping |-> TRUE, present |-> ChangeKeys, change_mapping |-> TRUE,
     type |-> type, address |-> address, actions |-> actions]

\* Plan documents with no resource_changes key.
NoChangesPlans ==
    {[kind |-> "dict", has_resource_changes |-> FALSE, resource_changes |-> <<>>,
      other_keys |-> ks] :
        ks \in SUBSET OtherKeys}

PlanWith(cs) ==
    [kind |-> "dict", has_resource_changes |-> TRUE, resource_changes |-> cs,
     other_keys |-> OtherKeys]

\* Plans of the analysis runs: one action per record, possibly unrecognized.
PlanActionLists == {<<"create">>, <<"update">>, <<"delete">>, <<"no-op">>}

PlanRecords ==
    {Change("aws_instance", a, as) : a \in Addresses, as \in PlanActionLists}

PlansUpTo(n) ==
    NoChangesPlans \cup {PlanWith(cs) : cs \in SeqsUpTo(PlanRecords, n)}

\* What one backend call does: raise, or return a text.
Raise == [raises |-> TRUE, text |-> <<>>]
Reply(t) == [raises |-> FALSE, text |-> t]

GoodA == <<"x", "{", "mc1", "cb", "{", "}", "hcA", "dtA", "recA", "}">>
GoodB == <<"{", "mc2", "cb", "{", "}", "hcB", "dtB", "recB", "}", "x">>
NoBreakdown == <<"{", "mc1", "hcA", "}">>
Truncated == <<"x", "{", "mc2", "cb", "{", "}", "hcB">>
StrCost == <<"{", "mcs", "cb", "{", "}", "hcA", "dtA", "}">>
BadHidden == <<"{", "mc1", "cb", "{", "}", "hcn", "dtA", "}">>
BadTransfer == <<"{", "mc1", "cb", "{", "}", "hcB", "dtn", "}">>

SampleReplies ==
    {Raise} \cup {Reply(t) : t \in {GoodA, GoodB, NoBreakdown, Truncated,
                                    StrCost, BadHidden, BadTransfer}}

(***************************************************************************)
(* The run: main() parses the plan, then analyze_costs_with_bedrock visits *)
(* the buckets.                                                            *)
(***************************************************************************)
NoSource == [a \in {} |-> <<"", 0>>]

NoText == [some |-> FALSE, text |-> <<>>]
Text(t) == [some |-> TRUE, text |-> t]

NoTarget == "None"
DefaultRegion == "us-east-1"

InitRunIn(plan, sc, region) ==
    /\ aws_region = region
    /\ output_file = NoTarget
    /\ report = NoText
    /\ saved = NoText
    /\ error_log = <<>>
    /\ key_order = <<>>
    /\ plan_data = plan
    /\ script = sc
    /\ resources = EmptyResources
    /\ pc = "parse"
    /\ bucket = 1
    /\ idx = 1
    /\ response = <<>>
    /\ resource_cost = None
    /\ parse_raised = FALSE
    /\ cost_analysis = InitialCostAnalysis
    /\ prompt_log = <<>>
    /\ call_log = <<>>
    /\ processed = <<>>
    /\ entry_src = NoSource

InitRun(plan, sc) == InitRunIn(plan, sc, DefaultRegion)

Init == \E plan \in PlansUpTo(MaxChanges) : InitRun(plan, <<>>)

Action == BucketOrder[bucket]
ResourceList == resources[Action]
Resource == ResourceList[idx]
Id == <<Action, idx>>

\* The position the two for loops reach from bucket b, index i: buckets for
\* which `continue` is taken and exhausted lists are passed over.  A bucket
\* past the last one means the loops are over.
RECURSIVE NextPosition(_, _, _)
NextPosition(res, b, i) ==
    IF b > Len(BucketOrder) THEN [bucket |-> b, idx |-> 1]
    ELSE IF IsSkippedAction(BucketOrder[b]) \/ i > Len(res[BucketOrder[b]])
         THEN NextPosition(res, b + 1, 1)
         ELSE [bucket |-> b, idx |-> i]

\* Mutant of PcAt: the function returns after the first resource.
PcAtFirstOnly(pos) == "done"

\* "loop" at the next resource, or "done" at `return cost_analysis`.
PcAt(pos) == IF pos.bucket > Len(BucketOrder) THEN "done" ELSE "loop"

\* main(): parse_terraform_plan, the early return on an empty set, then the
\* entry into analyze_costs_with_bedrock.
ParsePlan ==
    /\ pc = "parse"
    /\ LET r == ExtractResources(plan_data)
           pos == NextPosition(r.resources, 1, 1)
       IN  /\ resources' = r.resources
           /\ bucket' = pos.bucket
           /\ idx' = pos.idx
           /\ pc' = IF r.raised THEN "failed"
                    ELSE IF \A b \in DOMAIN r.resources : r.resources[b] = <<>>
                         THEN "no_resources"
                         ELSE PcAt(pos)
           /\ error_log' = IF r.raised THEN Append(error_log, "Analysis failed")
                           ELSE error_log
    /\ UNCHANGED <<plan_data, response, resource_cost, cost_analysis,
                   script, parse_raised, prompt_log, call_log, processed, entry_src>>
    /\ UNCHANGED <<key_order, aws_region, output_file, report, saved>>

\* _get_resource_cost_estimate up to the prompt: _create_cost_analysis_prompt is
\* a template filled with json.dumps of JSON-decoded values and cannot raise.
CreatePrompt ==
    /\ pc = "loop"
    /\ prompt_log' = Append(prompt_log, Id)
    /\ pc' = "prompted"
    /\ UNCHANGED <<plan_data, resources, bucket, idx, response, resource_cost,
                   cost_analysis, script, parse_raised, call_log, processed, entry_src>>
    /\ UNCHANGED <<key_order, report_vars>>

Finished(reply, outcome, raised) ==
    [action |-> Action, idx |-> idx, address |-> Resource.address, reply |-> reply,
     parse_raised |-> parse_raised, estimate |-> resource_cost,
     outcome |-> outcome, raised |-> raised]

\* The loop goes on after the current resource.
GoOn(failed) ==
    LET pos == NextPosition(resources, bucket, NextIndex(idx, failed))
    IN  /\ bucket' = pos.bucket
        /\ idx' = pos.idx
        /\ pc' = PcAt(pos)

\* _call_bedrock: one invoke_model.  When it raises, _get_resource_cost_estimate
\* logs and returns None, `if resource_cost:` is false and the loop goes on.
CallBedrock(reply) ==
    /\ pc = "prompted"
    /\ call_log' = Append(call_log, Id)
    /\ IF reply.raises
       THEN /\ processed' = Append(processed, Finished(reply, "skipped", FALSE))
            /\ GoOn(TRUE)
            /\ response' = <<>>
       ELSE /\ response' = reply.text
            /\ pc' = "called"
            /\ UNCHANGED <<processed, bucket, idx>>
    /\ UNCHANGED <<plan_data, resources, resource_cost, cost_analysis,
                   script, parse_raised, prompt_log, entry_src>>
    /\ UNCHANGED <<key_order, report_vars>>

\* return self._parse_bedrock_response(response, resource), inside the try of
\* _get_resource_cost_estimate: an exception from it becomes None.
ParseResponse ==
    /\ pc = "called"
    /\ \E r \in {ParseBedrockResponse(response)} :
           /\ parse_raised' = r.raised
           /\ resource_cost' = IF r.raised THEN None ELSE r.value
    /\ pc' = "interpreted"
    /\ UNCHANGED <<plan_data, resources, bucket, idx, response, cost_analysis,
                   script, prompt_log, call_log, processed, entry_src>>
    /\ UNCHANGED <<key_order, report_vars>>

\* Lines 139-152: merge a truthy estimate; an exception is logged and the loop
\* goes on.
Merge ==
    /\ pc = "interpreted"
    /\ IF IsTruthyCost(resource_cost)
       THEN LET m == MergeEstimate(cost_analysis, Resource.address, resource_cost.data)
            IN  /\ cost_analysis' = m.ca
                /\ entry_src' = [a \in (DOMAIN entry_src) \cup {Resource.address} |->
                                    IF a = Resource.address THEN Id ELSE entry_src[a]]
                /\ key_order' = IF Contains(key_order, Resource.address)
                                THEN key_order
                                ELSE Append(key_order, Resource.address)
                /\ processed' = Append(processed,
                       Finished(Reply(response),
                                IF m.raised THEN "skipped" ELSE "merged", m.raised))
                /\ GoOn(m.raised)
       ELSE /\ processed' = Append(processed,
                                   Finished(Reply(response), "skipped", FALSE))
            /\ GoOn(TRUE)
            /\ UNCHANGED <<cost_analysis, entry_src, key_order>>
    /\ response' = <<>>
    /\ resource_cost' = None
    /\ parse_raised' = FALSE
    /\ UNCHANGED <<plan_data, resources, script, prompt_log, call_log>>
    /\ UNCHANGED report_vars

BackendStep == \E reply \in SampleReplies : CallBedrock(reply)

Next ==
    \/ ParsePlan
    \/ CreatePrompt
    \/ BackendStep
    \/ ParseResponse
    \/ Merge

Spec == Init /\ [][Next]_vars

\* The run of a single synchronous thread: every call returns or raises, so
\* a step that can be taken is taken.
LiveSpec ==
    /\ Init /\ [][Next]_vars
    /\ WF_vars(ParsePlan) /\ WF_vars(CreatePrompt) /\ WF_vars(BackendStep)
    /\ WF_vars(ParseResponse) /\ WF_vars(Merge)

(***************************************************************************)
(* The report.  A report text is a sequence of lines; a line has a tag     *)
(* (which fixed text or which format string it comes from), a name and an  *)
(* amount.  ReportSpec is the run followed by generate_cost_report.        *)
(***************************************************************************)
Line(tag, name, amount) == [tag |-> tag, name |-> name, amount |-> amount]

\* The head of the report and the COST SUMMARY section.
HeadLines(ca, region, now) ==
    <<Line("rule", "", 0), Line("title", "", 0), Line("rule", "", 0),
      Line("generated", now, 0), Line("region", region, 0), Line("blank", "", 0),
      Line("summary", "", 0), Line("dashes", "", 0),
      Line("total", "", ca.total_estimated_cost), Line("blank", "", 0)>>

\* f"{x:.2f}" raises a ValueError on a value that is not a number.
CanFormat(v) == v.kind = "num"

\* RESOURCE COST BREAKDOWN, the entries in the insertion order of the dict.
BreakdownLines(ca, keys) ==
    IF keys = <<>> THEN <<>>
    ELSE <<Line("breakdown", "", 0), Line("dashes", "", 0)>> \o
         [i \in 1..Len(keys) |->
            Line("resource", keys[i],
                 Get(ca.monthly_cost_breakdown[keys[i]], "monthly_cost").num)] \o
         <<Line("blank", "", 0)>>

\* HIDDEN COSTS, DATA TRANSFER COSTS and the recommendations: a heading, one
\* entry per item, a total for the two cost sections.
SectionLines(tag, items, with_total) ==
    IF items = <<>> THEN <<>>
    ELSE <<Line(tag, "", 0), Line("dashes", "", 0)>> \o
         [i \in 1..Len(items) |-> Line("item", items[i], IF with_total THEN 0 ELSE i)] \o
         (IF with_total THEN <<Line("section_total", tag, 0)>> ELSE <<>>) \o
         <<Line("blank", "", 0)>>

\* Lines 303-365: `raised` when a breakdown entry cannot be formatted.
RenderReport(ca, keys, region, now) ==
    IF \E a \in DOMAIN ca.monthly_cost_breakdown :
          ~CanFormat(Get(ca.monthly_cost_breakdown[a], "monthly_cost"))
    THEN [raised |-> TRUE, text |-> <<>>]
    ELSE [raised |-> FALSE,
          text |-> HeadLines(ca, region, now) \o
                   BreakdownLines(ca, keys) \o
                   SectionLines("hidden", ca.hidden_costs, TRUE) \o
                   SectionLines("transfer", ca.data_transfer_costs, TRUE) \o
                   SectionLines("recommendations", ca.recommendations, FALSE)]

\* Mutant of HandleWriteFailure: the exception of open / write is not caught.
PropagateWriteFailure(text) == [raised |-> TRUE, returned |-> NoText]

\* `except Exception as e: logger.error(...)`, then `return report_text`.
HandleWriteFailure(text) == [raised |-> FALSE, returned |-> Text(text)]

Regions == {"us-east-1", "eu-west-1"}
Targets == {NoTarget, "report.txt"}
Clock == {"09:00:00", "09:00:01"}

\* generate_cost_report(cost_analysis, args.output) called by main after
\* analyze_costs_with_bedrock returned; `write_ok` is whether open and write
\* succeed.  An exception leaving it is caught by main (logged, exit 1).
GenerateReport(target, now, write_ok) ==
    /\ pc = "done"
    /\ output_file' = target
    /\ LET r == RenderReport(cost_analysis, key_order, aws_region, now)
           h == HandleWriteFailure(r.text)
       IN  IF r.raised
           THEN /\ pc' = "failed"
                /\ error_log' = Append(error_log, "Analysis failed")
                /\ UNCHANGED <<report, saved>>
           ELSE IF target = NoTarget
           THEN /\ pc' = "reported"
                /\ report' = Text(r.text)
                /\ UNCHANGED <<saved, error_log>>
           ELSE IF write_ok
           THEN /\ pc' = "reported"
                /\ report' = Text(r.text)
                /\ saved' = Text(r.text)
                /\ UNCHANGED error_log
           ELSE /\ pc' = IF h.raised THEN "failed" ELSE "reported"
                /\ report' = h.returned
                /\ error_log' = Append(error_log,
                                       IF h.raised THEN "Analysis failed"
                                       ELSE "Failed to save report to file")
                /\ UNCHANGED saved
    /\ UNCHANGED <<plan_data, resources, bucket, idx, response, resource_cost,
                   cost_analysis, script, parse_raised, prompt_log, call_log,
                   processed, entry_src, key_order, aws_region>>

ReportStep ==
    \E target \in Targets, now \in Clock, write_ok \in BOOLEAN :
        GenerateReport(target, now, write_ok)

ReportInit ==
    \E plan \in PlansUpTo(MaxChanges), region \in Regions : InitRunIn(plan, <<>>, region)

ReportNext == Next \/ ReportStep

ReportSpec == ReportInit /\ [][ReportNext]_vars


(***************************************************************************)
(* ClassifySpec: _extract_resources on every plan of up to MaxClassify     *)
(* records whose action lists are any list of up to MaxActions action      *)
(* names.  Record i has the address AddressAt[i].                          *)
(***************************************************************************)
ActionNames == {"create", "update", "delete", "no-op"}
AddressAt == <<"r1", "r2", "r3", "r4">>

ClassifyPlans(n, m) ==
    NoChangesPlans \cup
    {PlanWith([i \in 1..Len(as) |->
                  Change("aws_instance", AddressAt[i], as[i])]) :
        as \in SeqsUpTo(SeqsUpTo(ActionNames, m), n)}

ClassifyInit == \E plan \in ClassifyPlans(MaxClassify, MaxActions) : InitRun(plan, <<>>)

ClassifyNext == ParsePlan

ClassifySpec == ClassifyInit /\ [][ClassifyNext]_vars

(***************************************************************************)
(* PlanSpec: _extract_resources, called by main, on plan documents of any  *)
(* JSON kind and on change records of any shape: a record that is not a    *)
(* mapping, that lacks some of its keys, or whose 'change' value is not a  *)
(* mapping.                                                                *)
(***************************************************************************)
\* Documents that are not a mapping.  For a list or a string,
\* has_resource_changes is the outcome of the `in` test.
NonMappingPlans ==
    {[kind |-> k, has_resource_changes |-> h, resource_changes |-> <<>>,
      other_keys |-> {}] : k \in {"list", "str"}, h \in BOOLEAN} \cup
    {[kind |-> k, has_resource_changes |-> FALSE, resource_changes |-> <<>>,
      other_keys |-> {}] : k \in {"num", "null"}}

NonMappingRecord ==
    [mapping |-> FALSE, present |-> {}, change_mapping |-> FALSE,
     type |-> "", address |-> "", actions |-> <<>>]

ShapedRecords ==
    {NonMappingRecord} \cup
    {r \in {[Change("aws_instance", a, as) EXCEPT !.present = ks, !.change_mapping = cm] :
                a \in {"a"}, as \in {<<"create">>, <<"delete">>},
                ks \in SUBSET ChangeKeys, cm \in BOOLEAN} :
        r.change_mapping \/ "change" \in r.present}

ShapedPlans(n) ==
    NonMappingPlans \cup NoChangesPlans \cup
    {PlanWith(cs) : cs \in SeqsUpTo(ShapedRecords, n)}

PlanInit == \E plan \in ShapedPlans(MaxShaped) : InitRun(plan, <<>>)

PlanNext == ParsePlan

PlanSpec == PlanInit /\ [][PlanNext]_vars

(***************************************************************************)
(* ParseSpec: the run with scripted backend replies.  Either one resource  *)
(* whose reply is any text of up to MaxText tokens, or two resources, the  *)
(* first answered with a well-formed payload and the second with the same  *)
(* payload between a prose prefix and a prose suffix of up to MaxProse     *)
(* characters each.                                                        *)
(***************************************************************************)
ParseAlphabet == {"{", "}", "mc1", "cb", "x"}
ProseAlphabet == {"x", "{", "}"}

TextsUpTo(n) == SeqsUpTo(ParseAlphabet, n)
Prose == SeqsUpTo(ProseAlphabet, MaxProse)
WellFormedPayloads(n) == {t \in TextsUpTo(n) : JsonLoads(t).ok}

CreateOf(address) == Change("aws_instance", address, <<"create">>)

ParseInit ==
    \/ \E t \in TextsUpTo(MaxText) : InitRun(PlanWith(<<CreateOf("a")>>), <<Reply(t)>>)
    \/ \E p \in WellFormedPayloads(MaxText), pre \in Prose, suf \in Prose :
          InitRun(PlanWith(<<CreateOf("a"), CreateOf("b")>>),
                  <<Reply(p), Reply(pre \o p \o suf)>>)

ScriptedBackendStep ==
    /\ Len(call_log) < Len(script)
    /\ CallBedrock(script[Len(call_log) + 1])

ParseNext ==
    \/ ParsePlan
    \/ CreatePrompt
    \/ ScriptedBackendStep
    \/ ParseResponse
    \/ Merge

ParseSpec == ParseInit /\ [][ParseNext]_vars


(***************************************************************************)
(* Vocabulary of the properties.                                           *)
(***************************************************************************)
Breakdown == cost_analysis.monthly_cost_breakdown

\* The estimated (non-delete) resources in the order the specification gives:
\* the create bucket, then the update bucket, each in list order.
IdsInOrder ==
    [i \in 1..Len(resources.create) |-> <<"create", i>>] \o
    [i \in 1..Len(resources.update) |-> <<"update", i>>]

IdOf(p) == <<p.action, p.idx>>

Occurrences(log, id) == Cardinality({k \in 1..Len(log) : log[k] = id})

RecordsOf(id) == {k \in 1..Len(processed) : IdOf(processed[k]) = id}

\* The replies of the analysis runs that are a valid estimate: a well-formed
\* payload with both monthly_cost and cost_breakdown.
ValidSampleTexts == {GoodA, GoodB, StrCost, BadHidden, BadTransfer}

FailedReply(p) == p.reply.raises \/ p.reply.text \notin ValidSampleTexts

WroteEntry(id) == \E a \in DOMAIN entry_src : entry_src[a] = id

SharesAddress(p) ==
    \E k \in 1..Len(processed) :
        processed[k].address = p.address /\ IdOf(processed[k]) # IdOf(p)

RECURSIVE SumCosts(_, _)
SumCosts(bd, S) ==
    IF S = {} THEN 0
    ELSE LET a == CHOOSE x \in S : TRUE
             mc == Get(bd[a], "monthly_cost")
         IN  (IF mc.kind = "num" THEN mc.num ELSE 0) + SumCosts(bd, S \ {a})

\* Two readings of "successfully estimated": the resource has a breakdown
\* entry ("entry"), or its merge ended without an exception ("merged").
Readings == {"entry", "merged"}

Counted(p, reading) ==
    IF reading = "entry" THEN IsTruthyCost(p.estimate) ELSE p.outcome = "merged"

\* What a finished resource owes to the aggregate list `key`: its list when
\* the resource counts as successfully estimated.
Contribution(p, key, reading) ==
    IF Counted(p, reading) /\ key \in DOMAIN p.estimate.data
       /\ p.estimate.data[key].kind = "list"
    THEN p.estimate.data[key].items
    ELSE <<>>

RECURSIVE ConcatInOrder(_, _, _, _)
ConcatInOrder(ids, key, n, reading) ==
    IF n = 0 THEN <<>>
    ELSE ConcatInOrder(ids, key, n - 1, reading) \o
         (IF RecordsOf(ids[n]) = {} THEN <<>>
          ELSE Contribution(processed[CHOOSE k \in RecordsOf(ids[n]) : TRUE],
                            key, reading))

Concatenation(key, reading) == ConcatInOrder(IdsInOrder, key, Len(IdsInOrder), reading)

(***************************************************************************)
(* C1: when analyze_costs_with_bedrock has returned, total_estimated_cost  *)
(* equals the sum of monthly_cost over the entries of                      *)
(* monthly_cost_breakdown (an entry whose monthly_cost is not a number     *)
(* counts for nothing on either side).                                     *)
(***************************************************************************)
C1_TotalEqualsBreakdownSum ==
    pc = "done" =>
        cost_analysis.total_estimated_cost = SumCosts(Breakdown, DOMAIN Breakdown)

(***************************************************************************)
(* C2: partial-failure isolation.  When the run has returned, every create *)
(* and update resource was visited; a resource whose backend call raised   *)
(* or whose reply is not a valid estimate wrote no breakdown entry (and    *)
(* its address is no key of the breakdown unless another resource has the  *)
(* same address); every resource whose reply is a valid estimate has its   *)
(* address in the breakdown.  The run never ends in an exception.          *)
(***************************************************************************)
C2_PartialFailureIsolation ==
    /\ pc # "failed"
    /\ pc = "done" =>
        /\ \A n \in 1..Len(IdsInOrder) : RecordsOf(IdsInOrder[n]) # {}
        /\ \A k \in 1..Len(processed) :
            LET p == processed[k]
            IN  /\ FailedReply(p) =>
                      /\ ~WroteEntry(IdOf(p))
                      /\ ~SharesAddress(p) => p.address \notin DOMAIN Breakdown
                /\ ~FailedReply(p) => p.address \in DOMAIN Breakdown

C2_Witness ==
    /\ pc = "done"
    /\ Len(processed) = 2
    /\ processed[1].reply.raises
    /\ processed[2].reply = Reply(GoodA)
    /\ processed[1].address # processed[2].address
    /\ DOMAIN Breakdown = {processed[2].address}

(***************************************************************************)
(* C3: a resource of the delete bucket is never given to the prompt        *)
(* builder or the backend and never writes a breakdown entry; its address  *)
(* is a key of the breakdown only if a create or update resource has it.   *)
(***************************************************************************)
C3_DeleteNeverEstimated ==
    /\ \A k \in 1..Len(prompt_log) : prompt_log[k][1] # "delete"
    /\ \A k \in 1..Len(call_log) : call_log[k][1] # "delete"
    /\ \A a \in DOMAIN entry_src : entry_src[a][1] # "delete"
    /\ \A i \in 1..Len(resources.delete) :
          resources.delete[i].address \in DOMAIN Breakdown =>
              \E b \in {"create", "update"} : \E j \in 1..Len(resources[b]) :
                  resources[b][j].address = resources.delete[i].address

C3_Witness ==
    /\ pc = "done"
    /\ Len(resources.create) = 1
    /\ Len(resources.delete) = 1
    /\ Len(call_log) = 1
    /\ DOMAIN Breakdown = {resources.create[1].address}
    /\ resources.delete[1].address \notin DOMAIN Breakdown

(***************************************************************************)
(* C4: the backend is called at most once for a resource at any time, and  *)
(* when the run has returned it was called exactly once for each create    *)
(* and update resource, so the number of calls is the number of non-delete *)
(* resources, whatever the calls returned.                                 *)
(***************************************************************************)
C4_OneCallPerResource ==
    /\ \A j, k \in 1..Len(call_log) : j # k => call_log[j] # call_log[k]
    /\ pc = "done" =>
        /\ Len(call_log) = Len(resources.create) + Len(resources.update)
        /\ \A n \in 1..Len(IdsInOrder) : Occurrences(call_log, IdsInOrder[n]) = 1

C4_Witness ==
    /\ pc = "done"
    /\ Len(resources.create) + Len(resources.update) = 2
    /\ call_log = IdsInOrder
    /\ processed[1].reply.raises
    /\ processed[2].reply = Reply(Truncated)

(***************************************************************************)
(* C5: when the run has returned, hidden_costs and data_transfer_costs are *)
(* the concatenation, create bucket first, then update, each in list       *)
(* order, of the lists of the successfully estimated resources, under one  *)
(* of the two readings of "successfully estimated".                        *)
(***************************************************************************)
C5_ListsConcatenatedInOrder ==
    pc = "done" =>
        \E reading \in Readings :
            /\ cost_analysis.hidden_costs = Concatenation("hidden_costs", reading)
            /\ cost_analysis.data_transfer_costs =
                   Concatenation("data_transfer_costs", reading)

(***************************************************************************)
(* C6: when the run has returned, recommendations is the concatenation, in *)
(* processing order, of the recommendations lists of the successfully      *)
(* estimated resources, under one of the two readings.                     *)
(***************************************************************************)
C6_RecommendationsConcatenated ==
    pc = "done" =>
        \E reading \in Readings :
            cost_analysis.recommendations = Concatenation("recommendations", reading)

(***************************************************************************)
(* C7: classification by precedence create, update, delete.  After         *)
(* _extract_resources on a plan with a resource_changes list: a record     *)
(* whose actions contain create is in the create bucket and no other; one  *)
(* without create whose actions contain update is in the update bucket     *)
(* only; one with neither whose actions contain delete is in the delete    *)
(* bucket only; a record with none of the three is in no bucket; no record *)
(* is in a bucket twice, and the number of bucketed resources is the       *)
(* number of records with a recognized action.                             *)
(***************************************************************************)
ActionsOf(c) == {c.actions[i] : i \in 1..Len(c.actions)}

PlacesIn(b, c) == {j \in 1..Len(resources[b]) : resources[b][j].address = c.address}

BucketsHolding(c) == {b \in {"create", "update", "delete"} : PlacesIn(b, c) # {}}

C7_ClassificationPrecedence ==
    (pc # "parse" /\ plan_data.has_resource_changes) =>
        LET changes == plan_data.resource_changes
        IN  /\ \A i \in 1..Len(changes) :
                LET c == changes[i]
                IN  /\ "create" \in ActionsOf(c) => BucketsHolding(c) = {"create"}
                    /\ ("create" \notin ActionsOf(c) /\ "update" \in ActionsOf(c))
                           => BucketsHolding(c) = {"update"}
                    /\ (ActionsOf(c) \cap {"create", "update"} = {}
                            /\ "delete" \in ActionsOf(c))
                           => BucketsHolding(c) = {"delete"}
                    /\ ActionsOf(c) \cap {"create", "update", "delete"} = {}
                           => BucketsHolding(c) = {}
                    /\ \A b \in {"create", "update", "delete"} :
                           Cardinality(PlacesIn(b, c)) <= 1
            /\ Len(resources.create) + Len(resources.update) + Len(resources.delete)
                   = Cardinality({i \in 1..Len(changes) :
                         ActionsOf(changes[i]) \cap {"create", "update", "delete"} # {}})

C7_Witness ==
    /\ pc = "loop"
    /\ plan_data.has_resource_changes
    /\ Len(plan_data.resource_changes) = 2
    /\ plan_data.resource_changes[1].actions = <<"delete", "create">>
    /\ plan_data.resource_changes[2].actions = <<"no-op">>
    /\ Len(resources.create) = 1
    /\ resources.create[1].address = plan_data.resource_changes[1].address
    /\ resources.update = <<>>
    /\ resources.delete = <<>>

(***************************************************************************)
(* C8: after _extract_resources on a plan document with no                 *)
(* resource_changes key, the create, update and delete buckets are all     *)
(* empty and no exception was raised.                                      *)
(***************************************************************************)
C8_NoResourceChangesEmptyBuckets ==
    (pc # "parse" /\ plan_data.kind = "dict" /\ ~plan_data.has_resource_changes) =>
        /\ pc # "failed"
        /\ DOMAIN resources = {"create", "update", "delete"}
        /\ resources.create = <<>>
        /\ resources.update = <<>>
        /\ resources.delete = <<>>

C8_Witness ==
    /\ pc = "no_resources"
    /\ ~plan_data.has_resource_changes
    /\ plan_data.other_keys = {"format_version", "planned_values"}


(***************************************************************************)
(* C9: _parse_bedrock_response never raises to its caller.  For every      *)
(* reply text it returns None or a record holding monthly_cost and         *)
(* cost_breakdown; it returns None when the text has no "{" or no "}",     *)
(* when the span from the first "{" to the last "}" is not well-formed,    *)
(* and when that span lacks monthly_cost or cost_breakdown; the resource   *)
(* then has no entry in monthly_cost_breakdown.                            *)
(***************************************************************************)
Positions(t, c) == {q \in 1..Len(t) : t[q] = c}

Least(S) == CHOOSE m \in S : \A n \in S : m <= n
Greatest(S) == CHOOSE m \in S : \A n \in S : m >= n

NoSpan(t) == Positions(t, "{") = {} \/ Positions(t, "}") = {}

SpanOf(t) == SubSeq(t, Least(Positions(t, "{")), Greatest(Positions(t, "}")))

NoEstimateCase(t) ==
    \/ NoSpan(t)
    \/ ~JsonLoads(SpanOf(t)).ok
    \/ "monthly_cost" \notin DOMAIN JsonLoads(SpanOf(t)).data
    \/ "cost_breakdown" \notin DOMAIN JsonLoads(SpanOf(t)).data

C9_ParseNeverRaises ==
    /\ ~parse_raised
    /\ \A k \in 1..Len(processed) :
        LET p == processed[k]
        IN  ~p.reply.raises =>
                /\ ~p.parse_raised
                /\ p.estimate.some =>
                       {"monthly_cost", "cost_breakdown"} \subseteq DOMAIN p.estimate.data
                /\ NoEstimateCase(p.reply.text) =>
                       /\ ~p.estimate.some
                       /\ p.address \notin DOMAIN Breakdown

C9_Witness ==
    /\ pc = "done"
    /\ Len(processed) = 1
    /\ processed[1].reply = Reply(<<"x", "{", "mc1", "cb", "{", "}">>)
    /\ ~processed[1].estimate.some
    /\ processed[1].outcome = "skipped"
    /\ DOMAIN Breakdown = {}

(***************************************************************************)
(* C10 as stated: a well-formed payload between any prose prefix and any   *)
(* prose suffix is interpreted as the payload alone is.                    *)
(***************************************************************************)
C10_RoundTripAnyProse ==
    (pc = "done" /\ Len(script) = 2) =>
        processed[2].estimate = processed[1].estimate

(***************************************************************************)
(* C10 as amended: a well-formed payload between a prose prefix that holds *)
(* no "{" and a prose suffix that holds no "}" is interpreted as the       *)
(* payload alone is.                                                       *)
(***************************************************************************)
C10_RoundTripCleanProse ==
    (pc = "done" /\ Len(script) = 2) =>
        \A pre \in Prose, suf \in Prose :
            (/\ script[2].text = pre \o script[1].text \o suf
             /\ ~Contains(pre, "{")
             /\ ~Contains(suf, "}"))
            => processed[2].estimate = processed[1].estimate

C10_Witness ==
    /\ pc = "done"
    /\ Len(script) = 2
    /\ script[1].text = <<"{", "mc1", "cb", "{", "}", "}">>
    /\ script[2].text = <<"}">> \o script[1].text \o <<"{">>
    /\ processed[1].estimate.some
    /\ processed[2].estimate = processed[1].estimate
    /\ DOMAIN Breakdown = {"a", "b"}


(* C11: generate_cost_report with an output target: when the write to the  *)
(* target fails the failure is logged and not raised, and the function     *)
(* returns the text it returns with no target: whenever the report can be  *)
(* rendered the run reaches "reported" with the rendering of the aggregate *)
(* as the returned text, whatever the target and the outcome of the write; *)
(* a target that was not written has its failure in the error log, and a   *)
(* written target holds the returned text.                                 *)
\* analyze_costs_with_bedrock ran: the plan was classified and is not empty.
Analysed == \E b \in DOMAIN resources : resources[b] # <<>>

Renders == ~RenderReport(cost_analysis, key_order, aws_region, "").raised

WriteFailed == output_file # NoTarget /\ ~saved.some

C11_ReportSurvivesWriteFailure ==
    (Analysed /\ pc \in {"reported", "failed"} /\ Renders) =>
        /\ pc = "reported"
        /\ report.some
        /\ \E now \in Clock :
              report.text = RenderReport(cost_analysis, key_order, aws_region, now).text
        /\ WriteFailed => Contains(error_log, "Failed to save report to file")
        /\ saved.some => saved = report

C11_Witness ==
    /\ pc = "reported"
    /\ WriteFailed
    /\ error_log = <<"Failed to save report to file">>
    /\ Len(key_order) = 2
    /\ cost_analysis.hidden_costs # <<>>
    /\ report.some
    /\ Len(report.text) > 14


(* C12: classification fails when, and only when, the plan input is        *)
(* malformed (the document is not a mapping, or a change record does not   *)
(* have the expected shape), and the failure ends the run: once main has   *)
(* classified the plan, the run has failed exactly if the plan was         *)
(* malformed, and no malformed record was skipped or given defaults.       *)
WellShaped(change) ==
    change.mapping /\ change.present = ChangeKeys /\ change.change_mapping

Malformed(plan) ==
    \/ plan.kind # "dict"
    \/ /\ plan.has_resource_changes
       /\ \E i \in 1..Len(plan.resource_changes) : ~WellShaped(plan.resource_changes[i])

C12_MalformedPlanFails ==
    pc # "parse" => (Malformed(plan_data) <=> pc = "failed")


(* C13: each create / update resource moves through pending, prompted,     *)
(* interpreted and then exactly one of merged or skipped, never backwards  *)
(* (merged is entered from interpreted only; skipped is entered from       *)
(* interpreted, or from prompted when the backend call raises); resources  *)
(* are processed one at a time (a resource has left pending only when      *)
(* every resource visited before it has reached merged or skipped); and    *)
(* the run ends, with every such resource merged or skipped.               *)
StateOf(id) ==
    IF RecordsOf(id) # {}
    THEN processed[CHOOSE k \in RecordsOf(id) : \A j \in RecordsOf(id) : j <= k].outcome
    ELSE IF pc = "interpreted" /\ Id = id THEN "interpreted"
    ELSE IF Contains(prompt_log, id) THEN "prompted"
    ELSE "pending"

Transitions ==
    {<<"pending", "prompted">>, <<"prompted", "interpreted">>,
     <<"interpreted", "merged">>, <<"interpreted", "skipped">>,
     <<"prompted", "skipped">>}

Terminal == {"merged", "skipped"}

Estimated == {IdsInOrder[n] : n \in 1..Len(IdsInOrder)}

MovesForward ==
    \A id \in Estimated :
        \/ StateOf(id)' = StateOf(id)
        \/ <<StateOf(id), StateOf(id)'>> \in Transitions

OneAtATime ==
    /\ \A id \in Estimated : Cardinality(RecordsOf(id)) <= 1
    /\ \A n, m \in 1..Len(IdsInOrder) :
          (n < m /\ StateOf(IdsInOrder[m]) # "pending") =>
              StateOf(IdsInOrder[n]) \in Terminal

RunEnded == pc \in {"done", "no_resources", "failed"}

AllSettled == \A id \in Estimated : StateOf(id) \in Terminal

C13_ResourceStateMachine ==
    /\ [][MovesForward]_vars
    /\ []OneAtATime
    /\ [](RunEnded => AllSettled)
    /\ <>[](RunEnded /\ AllSettled)

C13_Witness ==
    /\ pc = "done"
    /\ Len(IdsInOrder) = 2
    /\ StateOf(IdsInOrder[1]) = "skipped"
    /\ processed[1].reply = Raise
    /\ StateOf(IdsInOrder[2]) = "merged"


(* C14: merging one resource's estimate into the aggregate is all or       *)
(* nothing: the step of the loop that finishes a resource either leaves    *)
(* the aggregate as it was, or adds everything the estimate holds (the     *)
(* breakdown entry under the resource's address, monthly_cost to the       *)
(* total, hidden_costs and data_transfer_costs to the lists); an exception *)
(* raised part-way through the merge leaves no part of it behind.          *)
ListOf(d, key) ==
    IF key \in DOMAIN d /\ d[key].kind = "list" THEN d[key].items ELSE <<>>

FinishesResource == Len(processed') = Len(processed) + 1

Everything(p) ==
    /\ Get(p.estimate.data, "monthly_cost").kind = "num"
    /\ cost_analysis' =
          [cost_analysis EXCEPT
              !.monthly_cost_breakdown = (p.address :> p.estimate.data) @@ @,
              !.total_estimated_cost = @ + Get(p.estimate.data, "monthly_cost").num,
              !.hidden_costs = @ \o ListOf(p.estimate.data, "hidden_costs"),
              !.data_transfer_costs = @ \o ListOf(p.estimate.data, "data_transfer_costs")]

Nothing == cost_analysis' = cost_analysis

C14_MergeAllOrNothing ==
    [][FinishesResource =>
          LET p == processed'[Len(processed')]
          IN  /\ Nothing \/ Everything(p)
              /\ p.raised => Nothing]_vars

=============================================================================
